---- MODULE Spec2Model ----
(***************************************************************************)
(* The camhub-client dashboard: the live-view session lifecycle            *)
(* (startWhep and the CameraTile bind/cleanup effect) and the              *)
(* reconciliation loop of App (config fetch, camera and motion polls,      *)
(* snapshot history).                                                      *)
(*                                                                         *)
(* The repository holds two revisions of the dashboard around the same    *)
(* CameraTile: src/app.js (motion polls, snapshot history) and             *)
(* src/unnamed/part_000 (auth token input, whose change re-runs the mount  *)
(* effect and so re-fetches the gateway base).  The model gives CameraTile *)
(* the environment of both.                                                *)
(*                                                                         *)
(* Text (URLs, header values) is a sequence of tokens: a scheme token      *)
(* ("https:"), "//", a host, "/", a path segment, "..", ".".               *)
(***************************************************************************)
EXTENDS Integers, Sequences, FiniteSets, TLC

\* ------------------------------------------------------------------ bounds
MaxCycles == 2      \* bind cycles (startWhep calls) over a run
MaxInsts == 2       \* CameraTile instances created over a run
MaxPending == 1     \* requests of one kind in flight at once
MaxConfig == 2      \* configuration fetches over a run
MaxSnaps == 2       \* snapshot records accumulated over a run
NumStreams == 2     \* distinct media streams one peer connection delivers
MaxRacing == 2      \* camera-list requests in flight at once, where they race

\* ------------------------------------------------------------- JS values
\* A nullable string: null, or a text (a token sequence, possibly empty).
Null == [isNull |-> TRUE, v |-> <<>>]
Str(s) == [isNull |-> FALSE, v |-> s]
\* JavaScript truthiness of a nullable string: null and "" are falsy.
Truthy(x) == ~x.isNull /\ x.v # <<>>

Schemes == {"https:", "http:"}

\* ---------------------------------------------------------- URL handling
\* The path segments of a token sequence "/" seg "/" seg ...; a "/" with
\* nothing after it (or followed by another "/") gives an empty segment.
RECURSIVE PathSegments(_)
PathSegments(t) ==
  IF t = <<>> THEN <<>>
  ELSE IF t[1] = "/"
       THEN IF Len(t) = 1 \/ t[2] = "/"
            THEN <<"">> \o PathSegments(Tail(t))
            ELSE <<t[2]>> \o PathSegments(Tail(Tail(t)))
       ELSE <<t[1]>> \o PathSegments(Tail(t))

\* Removal of "." and ".." segments, never above the root.
RECURSIVE RemoveDots(_, _)
RemoveDots(segs, acc) ==
  IF segs = <<>> THEN acc
  ELSE IF segs[1] = "." THEN RemoveDots(Tail(segs), acc)
  ELSE IF segs[1] = ".."
       THEN RemoveDots(Tail(segs),
                       IF acc = <<>> THEN acc ELSE SubSeq(acc, 1, Len(acc) - 1))
       ELSE RemoveDots(Tail(segs), Append(acc, segs[1]))

\* An absolute URL text parsed: scheme "//" host path.  ok = FALSE is the
\* TypeError of new URL on a text that is no URL (no host after "//").
ParseAbsolute(t) ==
  IF Len(t) >= 3 /\ t[1] \in Schemes /\ t[2] = "//" /\ t[3] \notin {"/", "//"}
  THEN [ok |-> TRUE, scheme |-> t[1], host |-> t[3],
        path |-> RemoveDots(PathSegments(SubSeq(t, 4, Len(t))), <<>>)]
  ELSE [ok |-> FALSE, scheme |-> "", host |-> "", path |-> <<>>]

\* new URL(input, base): the input resolved against the base URL.
ResolveUrl(input, base) ==
  LET b == ParseAbsolute(base)
      bad == [ok |-> FALSE, scheme |-> "", host |-> "", path |-> <<>>]
  IN  IF ~b.ok THEN bad
      ELSE IF input # <<>> /\ input[1] \in Schemes THEN ParseAbsolute(input)
      ELSE IF input # <<>> /\ input[1] = "//"
           THEN ParseAbsolute(<<b.scheme>> \o input)
      ELSE IF input # <<>> /\ input[1] = "/"
           THEN [b EXCEPT !.path = RemoveDots(PathSegments(input), <<>>)]
      ELSE IF input = <<>> THEN b
      ELSE [b EXCEPT !.path =
              RemoveDots(
                (IF b.path = <<>> THEN <<>> ELSE SubSeq(b.path, 1, Len(b.path) - 1))
                  \o PathSegments(input), <<>>)]

\* URL.prototype.toString(): scheme "//" host, then "/" seg for every
\* segment ("/" alone for the empty path).
RECURSIVE PathText(_)
PathText(segs) ==
  IF segs = <<>> THEN <<>>
  ELSE (IF segs[1] = "" THEN <<"/">> ELSE <<"/", segs[1]>>) \o PathText(Tail(segs))

UrlToString(u) ==
  <<u.scheme, "//", u.host>> \o (IF u.path = <<>> THEN <<"/">> ELSE PathText(u.path))

\* The Location header taken as the session URL as it is, unresolved.
SessionUrlUnresolved(location, whepUrl) ==
  [threw |-> FALSE, url |-> IF Truthy(location) THEN location ELSE Null]

\* startWhep's last lines: the Location header (null when the response has
\* none) resolved against whepUrl.  threw = TRUE when new URL throws.
SessionUrlOf(location, whepUrl) ==
  IF Truthy(location)
  THEN LET u == ResolveUrl(location.v, whepUrl)
       IN  IF u.ok THEN [threw |-> FALSE, url |-> Str(UrlToString(u))]
           ELSE [threw |-> TRUE, url |-> Null]
  ELSE [threw |-> FALSE, url |-> Null]


\* ------------------------------------------------------------ environment
CamOrder == <<"cam1", "cam2">>
CamIds == {CamOrder[k] : k \in DOMAIN CamOrder}
\* camera.stream_path: "" is an absent (or empty) stream_path.
StreamPaths == {"", "alt"}
Camera(id, sp) == [id |-> id, stream_path |-> sp]

\* A parsed JSON body of GET /api/cameras: an array of cameras with distinct
\* ids, or an object that is no array (the backend's {error: ...} body).
CameraArrays ==
  { {Camera(id, f[id]) : id \in DOMAIN f} :
      f \in UNION {[S -> StreamPaths] : S \in SUBSET CamIds} }
Array(items) == [isArray |-> TRUE, items |-> items]
ErrorBody == [isArray |-> FALSE, items |-> {}]

\* cfg.webrtcBase of GET /api/config (<<>> when the body has none) and the
\* fallback built from window.location.
GatewayBases == {<<"https:", "//", "gw">>}
ConfigBodies == GatewayBases \cup {<<>>}
Fallback == <<"http:", "//", "host:8889">>

\* The Location header of the session endpoint's response.
Locations == {Null, Str(<<"/", "sessions", "/", "abc123">>), Str(<<"https:", "//">>)}
\* The response to the session endpoint's POST: the HTTP status class, whether
\* the body is a session description setRemoteDescription accepts, Location.
\* startWhep reads the body of a response of any status.
Responses ==
  [httpOk : {TRUE}, sdpValid : BOOLEAN, location : Locations]
    \cup [httpOk : {FALSE}, sdpValid : BOOLEAN, location : {Null}]

NoStream == <<0, 0>>

\* ------------------------------------------------------------------ state
VARIABLES
  appMounted,    \* App is mounted (its mount effect ran, no cleanup yet)
  cameras,       \* App state `cameras`: a parsed body of GET /api/cameras
  motionEvents,  \* App state `motionEvents`
  snapshots,     \* App state `snapshots`, newest first
  stored,        \* localStorage["camhub_snapshots"]
  webrtcBase,    \* App state `webrtcBase` (<<>> is "")
  timer,         \* setInterval(refresh, 5000) is armed
  motionTimer,   \* setInterval(refreshMotion, 10000) is armed
  pending,       \* requests in flight, by kind (camera-list requests in the
                 \* order they were issued, .older of them issued before the
                 \* one whose response `cameras` holds)
  nConfig,       \* configuration fetches issued so far
  clock,         \* Date.now()
  insts,         \* CameraTile instances ever created, by instance number
  cycles,        \* bind cycles ever started (one startWhep call each)
  deletes,       \* DELETE requests sent by effect cleanups
  urlCase        \* a Location header and an endpoint URL under test, and the result

vars == <<appMounted, cameras, motionEvents, snapshots, stored, webrtcBase,
          timer, motionTimer, pending, nConfig, clock, insts, cycles, deletes,
          urlCase>>

appVars == <<appMounted, cameras, motionEvents, snapshots, stored, webrtcBase,
             timer, motionTimer, pending, nConfig, clock>>
tileVars == <<insts, cycles, deletes>>

\* ---------------------------------------------------------- CameraTile
\* The tile state the effect and the negotiation callbacks work on.
Tiles == [insts |-> insts, cycles |-> cycles, deletes |-> deletes]

\* A new CameraTile instance: useRef(null), useState(true), useState("").
NewTile(camId) ==
  [cam |-> camId, mounted |-> TRUE, sessionRef |-> 0, connecting |-> TRUE,
   error |-> "", srcObject |-> NoStream, cleanup |-> 0]

\* whepUrl of the bind effect.
WhepUrl(base, camera) ==
  base \o <<"/", IF camera.stream_path # "" THEN camera.stream_path ELSE camera.id,
            "/", "whep">>

\* The cleanup the bind effect returns, run for instance i: clears the
\* cycle's active flag, closes the peer connection of the session
\* sessionRef holds, and sends DELETE to that session's URL if it has one.
\* (early records that the cycle was unbound with its negotiation in flight;
\* nothing reads it but the properties.)
CleanupEffect(st, i) ==
  LET c == st.insts[i].cleanup
      s == st.insts[i].sessionRef
  IN  IF c = 0 THEN st
      ELSE [insts |-> [st.insts EXCEPT ![i].cleanup = 0],
            cycles |-> [k \in DOMAIN st.cycles |->
                          [st.cycles[k] EXCEPT
                             !.active = IF k = c THEN FALSE ELSE @,
                             !.early = IF k = c
                                       THEN st.cycles[k].stage \in {"fetch", "answer"}
                                       ELSE @,
                             !.pcOpen = IF k = s THEN FALSE ELSE @]],
            deletes |-> IF s # 0 /\ Truthy(st.cycles[s].sessionUrl)
                        THEN Append(st.deletes, [cycle |-> s, state |-> "pending"])
                        ELSE st.deletes]

\* The synchronous part of startWhep: a new peer connection with its ontrack
\* handler, the offer and the POST in flight.
NewCycle(i, camId, whepUrl) ==
  [inst |-> i, cam |-> camId, url |-> whepUrl, active |-> TRUE,
   early |-> FALSE, stage |-> "fetch", pcOpen |-> TRUE, remote |-> FALSE,
   httpOk |-> FALSE,
   location |-> Null, sessionUrl |-> Null]

\* The bind effect without its `!webrtcBase` test.
BindEffectUnguarded(st, i, base, camera) ==
  LET c == Len(st.cycles) + 1
  IN  [st EXCEPT
         !.insts[i].connecting = TRUE,
         !.insts[i].error = "",
         !.insts[i].cleanup = c,
         !.cycles = Append(@, NewCycle(i, camera.id, WhepUrl(base, camera)))]

\* The body of the bind effect, run for instance i with the props of the
\* render that scheduled it.
BindEffect(st, i, base, camera) ==
  IF base = <<>> THEN st
  ELSE LET c == Len(st.cycles) + 1
       IN  [st EXCEPT
              !.insts[i].connecting = TRUE,
              !.insts[i].error = "",
              !.insts[i].cleanup = c,
              !.cycles = Append(@, NewCycle(i, camera.id, WhepUrl(base, camera)))]

\* The .then callback without its `if (!active) return`.
OnSessionUnchecked(st, c) ==
  LET i == st.cycles[c].inst
  IN  [st EXCEPT !.insts[i].sessionRef = c, !.insts[i].connecting = FALSE]

\* The .then callback of the bind effect for cycle c.
OnSession(st, c) ==
  LET i == st.cycles[c].inst
  IN  IF ~st.cycles[c].active THEN st
      ELSE [st EXCEPT !.insts[i].sessionRef = c, !.insts[i].connecting = FALSE]

\* The .catch callback of the bind effect for cycle c.
OnFailure(st, c) ==
  LET i == st.cycles[c].inst
  IN  IF ~st.cycles[c].active THEN st
      ELSE [st EXCEPT !.insts[i].error = "WebRTC failed",
                      !.insts[i].connecting = FALSE]

\* pc.ontrack of cycle c for an event whose first stream is `stream`
\* (NoStream when event.streams is empty).
OnTrack(st, c, stream) ==
  LET i == st.cycles[c].inst
  IN  IF stream # NoStream /\ st.insts[i].srcObject # stream
      THEN [st EXCEPT !.insts[i].srcObject = stream]
      ELSE st

\* ------------------------------------------------ React commits over tiles
MountedTiles(st) == {i \in DOMAIN st.insts : st.insts[i].mounted}
CameraOf(items, id) == CHOOSE c \in items : c.id = id
Least(S) == CHOOSE x \in S : \A y \in S : x <= y

\* The effect cleanups of the instances in S, lowest instance first.
RECURSIVE CleanupEach(_, _)
CleanupEach(st, S) ==
  IF S = {} THEN st
  ELSE LET i == Least(S) IN CleanupEach(CleanupEffect(st, i), S \ {i})

\* The bind effects of the instances in S, lowest instance first.
RECURSIVE BindEach(_, _, _, _)
BindEach(st, S, base, items) ==
  IF S = {} THEN st
  ELSE LET i == Least(S)
       IN  BindEach(BindEffect(st, i, base, CameraOf(items, st.insts[i].cam)),
                    S \ {i}, base, items)

\* Unmount of the instances in S: their cleanups run and they are gone.
UnmountEach(st, S) ==
  LET cleaned == CleanupEach(st, S)
  IN  [cleaned EXCEPT !.insts =
         [i \in DOMAIN @ |-> IF i \in S THEN [@[i] EXCEPT !.mounted = FALSE] ELSE @[i]]]

\* Mount of a tile for each camera id of ids, in CamOrder from position k.
RECURSIVE MountEach(_, _, _, _, _)
MountEach(st, ids, k, base, items) ==
  IF k > Len(CamOrder) THEN st
  ELSE IF CamOrder[k] \notin ids THEN MountEach(st, ids, k + 1, base, items)
  ELSE LET i == Len(st.insts) + 1
           made == [st EXCEPT !.insts = Append(@, NewTile(CamOrder[k]))]
       IN  MountEach(BindEffect(made, i, base, CameraOf(items, CamOrder[k])),
                     ids, k + 1, base, items)

\* The commit after setCameras(body) with a bind effect that depends on
\* [camera, webrtcBase]: every poll brings new camera objects, so the tiles
\* that stay run their cleanup and bind again.
RenderCamerasRebinding(st, body, base) ==
  IF ~body.isArray THEN UnmountEach(st, MountedTiles(st))
  ELSE LET ids == {c.id : c \in body.items}
           gone == {i \in MountedTiles(st) : st.insts[i].cam \notin ids}
           stay == MountedTiles(st) \ gone
           kept == {st.insts[i].cam : i \in stay}
           rebound == BindEach(CleanupEach(UnmountEach(st, gone), stay), stay, base,
                               body.items)
       IN  MountEach(rebound, ids \ kept, 1, base, body.items)

\* The commit after setCameras(body): the grid is cameras.map(...) keyed by
\* camera.id, so tiles whose id left the list unmount and tiles for new ids
\* mount.  A body that is no array makes render throw, and React unmounts
\* the whole tree.
RenderCameras(st, body, base) ==
  IF ~body.isArray THEN UnmountEach(st, MountedTiles(st))
  ELSE LET ids == {c.id : c \in body.items}
           gone == {i \in MountedTiles(st) : st.insts[i].cam \notin ids}
           kept == {st.insts[i].cam : i \in MountedTiles(st) \ gone}
       IN  MountEach(UnmountEach(st, gone), ids \ kept, 1, base, body.items)

\* The commit after setWebrtcBase(base) with a changed base: the bind
\* effect's dependency changed in every mounted tile, so each runs its
\* cleanup and then its effect again.
RenderBase(st, base, items) ==
  BindEach(CleanupEach(st, MountedTiles(st)), MountedTiles(st), base, items)

WithinBounds(st) == Len(st.insts) <= MaxInsts /\ Len(st.cycles) <= MaxCycles

SetTiles(st) ==
  /\ WithinBounds(st)
  /\ insts' = st.insts
  /\ cycles' = st.cycles
  /\ deletes' = st.deletes

\* ------------------------------------------------------------------- App
MotionIds == {"m1", "m2"}

\* env.CAMHUB_API_BASE with a trailing slash removed.
ApiBase == <<"https:", "//", "api">>
buildApiUrl(path) == IF ApiBase = <<>> THEN path ELSE ApiBase \o path

SnapshotPaths ==
  {<<>>, <<"/", "snapshots", "/", "a.jpg">>, <<"https:", "//", "cdn", "/", "a.jpg">>}
SnapshotBodies == [ok : BOOLEAN, path : SnapshotPaths]

\* The state updater putting the new record behind the old ones.
AppendSnapshot(prev, id, ts, url) == Append(prev, [id |-> id, ts |-> ts, url |-> url])

\* The state updater of handleSnapshot.
PrependSnapshot(prev, id, ts, url) == <<[id |-> id, ts |-> ts, url |-> url]>> \o prev

\* ----------------------------------------------------- snapshot storage
\* JSON text of the history is a token sequence: "[" records "]", a record
\* being "{" id, the decimal digits of ts, the url between quotes, "}".
Digits == <<"0", "1", "2", "3", "4", "5", "6", "7", "8", "9">>
DigitSet == {Digits[k] : k \in DOMAIN Digits}
DigitValue(d) == CHOOSE n \in 0..9 : Digits[n + 1] = d

RECURSIVE NumberText(_)
NumberText(n) ==
  IF n < 10 THEN <<Digits[n + 1]>>
  ELSE NumberText(n \div 10) \o <<Digits[(n % 10) + 1]>>

RECURSIVE StringifyRecords(_)
StringifyRecords(h) ==
  IF h = <<>> THEN <<>>
  ELSE <<"{", h[1].id>> \o NumberText(h[1].ts) \o <<"\"">> \o h[1].url \o <<"\"", "}">>
         \o StringifyRecords(Tail(h))

\* JSON.stringify(snapshots).
JsonStringify(h) == <<"[">> \o StringifyRecords(h) \o <<"]">>

RECURSIVE ParseNumber(_, _, _)
ParseNumber(t, k, acc) ==
  IF k <= Len(t) /\ t[k] \in DigitSet
  THEN ParseNumber(t, k + 1, acc * 10 + DigitValue(t[k]))
  ELSE [v |-> acc, next |-> k]

RECURSIVE ParseString(_, _, _)
ParseString(t, k, acc) ==
  IF t[k] = "\"" THEN [v |-> acc, next |-> k + 1]
  ELSE ParseString(t, k + 1, Append(acc, t[k]))

RECURSIVE ParseRecords(_, _)
ParseRecords(t, k) ==
  IF t[k] = "]" THEN <<>>
  ELSE LET n == ParseNumber(t, k + 2, 0)
           s == ParseString(t, n.next + 1, <<>>)
       IN  <<[id |-> t[k + 1], ts |-> n.v, url |-> s.v]>> \o ParseRecords(t, s.next + 1)

\* JSON.parse of a text JsonStringify wrote.
JsonParse(t) == ParseRecords(t, 2)

\* The initializer of the snapshots state: the stored history, [] when
\* nothing is stored.
LoadSnapshots(item) == IF Truthy(item) THEN JsonParse(item.v) ELSE <<>>

\* The persist effect storing the newest record alone.
PersistNewest(history, item, written) ==
  IF written
  THEN Str(JsonStringify(IF history = <<>> THEN <<>> ELSE <<history[1]>>))
  ELSE item

\* The persist effect: localStorage.setItem of the whole history; when
\* setItem throws (written = FALSE) the stored item stays.
PersistEffect(history, item, written) ==
  IF written THEN Str(JsonStringify(history)) ELSE item

\* The state after the first commit: App's mount effect has issued the
\* configuration fetch and the first two polls and armed both timers, and
\* the persist effect has run on the empty history of an empty store.
InitAppStored(written) ==
  /\ appMounted = TRUE
  /\ cameras = Array({})
  /\ motionEvents = {}
  /\ snapshots = <<>>
  /\ stored = PersistEffect(<<>>, Null, written)
  /\ webrtcBase = <<>>
  /\ timer = TRUE
  /\ motionTimer = TRUE
  /\ pending = [cameras |-> 1, older |-> 0, motion |-> 1, config |-> 1, snaps |-> <<>>,
                removes |-> 0]
  /\ nConfig = 1
  /\ clock = 0
  /\ insts = <<>>
  /\ cycles = <<>>
  /\ deletes = <<>>

InitApp == InitAppStored(TRUE)

UrlCase(location, whepUrl) ==
  [location |-> location, whepUrl |-> whepUrl, done |-> FALSE, threw |-> FALSE,
   url |-> Null]

Init == InitApp /\ urlCase = UrlCase(Null, <<>>)

\* setInterval(refresh, 5000) fires: refresh() issues GET /api/cameras.
\* (With at most n camera-list requests in flight.)
TimerFiresWithin(n) ==
  /\ timer
  /\ pending.cameras < n
  /\ pending' = [pending EXCEPT !.cameras = @ + 1]
  /\ UNCHANGED <<appMounted, cameras, motionEvents, snapshots, stored, webrtcBase,
                 timer, motionTimer, nConfig, clock, tileVars, urlCase>>

TimerFires == TimerFiresWithin(MaxPending)

\* The k-th oldest camera-list request in flight leaves without its response
\* being applied: what remains in flight of the requests issued before the
\* one `cameras` holds.
OlderWithout(k) == IF k <= pending.older THEN pending.older - 1 ELSE pending.older

\* A cleanup clearing the camera timer alone.
MountCleanupCameraOnly(timers) == [timers EXCEPT !.timer = FALSE]

\* The cleanup of App's mount effect: clearInterval of both timers.
MountCleanup(timers) == [timers EXCEPT !.timer = FALSE, !.motionTimer = FALSE]

\* refresh() resumes with the parsed body: setCameras(data), and the commit.
\* When render throws the tree is unmounted and the mount effect's cleanup
\* runs.  After the tree is gone a state setter does nothing.
RefreshResumes(body) ==
  /\ \E k \in 1..pending.cameras :
       pending' = [pending EXCEPT !.cameras = @ - 1,
                                  !.older = IF appMounted THEN k - 1 ELSE OlderWithout(k)]
  /\ IF appMounted
     THEN LET armed == [timer |-> timer, motionTimer |-> motionTimer]
              after == IF body.isArray THEN armed ELSE MountCleanup(armed)
          IN  /\ cameras' = body
              /\ SetTiles(RenderCameras(Tiles, body, webrtcBase))
              /\ appMounted' = body.isArray
              /\ timer' = after.timer
              /\ motionTimer' = after.motionTimer
     ELSE UNCHANGED <<cameras, tileVars, appMounted, timer, motionTimer>>
  /\ UNCHANGED <<motionEvents, snapshots, stored, webrtcBase, nConfig, clock, urlCase>>

\* GET /api/cameras answers with the camera array.
RefreshResolves == \E a \in CameraArrays : RefreshResumes(Array(a))

\* GET /api/cameras answers a failure status with a JSON error object:
\* res.json() parses it and refresh() goes on with it.
RefreshErrorBody == RefreshResumes(ErrorBody)

\* api.listCameras() rejects (network failure, or a body that is no JSON):
\* refresh() rejects and nothing is set.
RefreshFails ==
  /\ \E k \in 1..pending.cameras :
       pending' = [pending EXCEPT !.cameras = @ - 1, !.older = OlderWithout(k)]
  /\ UNCHANGED <<appMounted, cameras, motionEvents, snapshots, stored, webrtcBase,
                 timer, motionTimer, nConfig, clock, tileVars, urlCase>>

\* setInterval(refreshMotion, 10000) fires.
MotionTimerFires ==
  /\ motionTimer
  /\ pending.motion < MaxPending
  /\ pending' = [pending EXCEPT !.motion = @ + 1]
  /\ UNCHANGED <<appMounted, cameras, motionEvents, snapshots, stored, webrtcBase,
                 timer, motionTimer, nConfig, clock, tileVars, urlCase>>

\* refreshMotion() resumes with the parsed body: setMotionEvents(data) if
\* it is an array.
MotionResumes(body) ==
  /\ pending.motion > 0
  /\ pending' = [pending EXCEPT !.motion = @ - 1]
  /\ motionEvents' = IF appMounted /\ body.isArray THEN body.items ELSE motionEvents
  /\ UNCHANGED <<appMounted, cameras, snapshots, stored, webrtcBase, timer,
                 motionTimer, nConfig, clock, tileVars, urlCase>>

MotionResolves == \E a \in SUBSET MotionIds : MotionResumes(Array(a))

MotionErrorBody == MotionResumes(ErrorBody)

\* api.listMotion() rejects.
MotionFails ==
  /\ pending.motion > 0
  /\ pending' = [pending EXCEPT !.motion = @ - 1]
  /\ UNCHANGED <<appMounted, cameras, motionEvents, snapshots, stored, webrtcBase,
                 timer, motionTimer, nConfig, clock, tileVars, urlCase>>

\* api.getConfig() resolves with cfg: setWebrtcBase(cfg.webrtcBase || fallback),
\* and the commit when the base changed.
ConfigResolves ==
  \E cfg \in ConfigBodies :
    LET base == IF cfg # <<>> THEN cfg ELSE Fallback
    IN  /\ pending.config > 0
        /\ pending' = [pending EXCEPT !.config = @ - 1]
        /\ IF appMounted
           THEN /\ webrtcBase' = base
                /\ IF base # webrtcBase
                   THEN SetTiles(RenderBase(Tiles, base, cameras.items))
                   ELSE UNCHANGED tileVars
           ELSE UNCHANGED <<webrtcBase, tileVars>>
        /\ UNCHANGED <<appMounted, cameras, motionEvents, snapshots, stored, timer,
                       motionTimer, nConfig, clock, urlCase>>

\* api.getConfig() rejects: the .then callback never runs.
ConfigFails ==
  /\ pending.config > 0
  /\ pending' = [pending EXCEPT !.config = @ - 1]
  /\ UNCHANGED <<appMounted, cameras, motionEvents, snapshots, stored, webrtcBase,
                 timer, motionTimer, nConfig, clock, tileVars, urlCase>>

\* saveToken (the revision with the token input): the token changes, api is
\* rebuilt, and the mount effect runs again: its cleanup clears the camera
\* timer, then getConfig and refresh are issued and the timer armed anew.
SaveToken ==
  /\ appMounted
  /\ nConfig < MaxConfig
  /\ pending.cameras < MaxPending
  /\ nConfig' = nConfig + 1
  /\ pending' = [pending EXCEPT !.config = @ + 1, !.cameras = @ + 1]
  /\ timer' = TRUE
  /\ UNCHANGED <<appMounted, cameras, motionEvents, snapshots, stored, webrtcBase,
                 motionTimer, clock, tileVars, urlCase>>

\* The Snapshot button of a mounted tile: handleSnapshot(id) issues
\* POST /api/snapshots/{id}.
HandleSnapshot ==
  \E i \in MountedTiles(Tiles) :
    /\ Len(pending.snaps) < MaxPending
    /\ Len(snapshots) + Len(pending.snaps) < MaxSnaps
    /\ pending' = [pending EXCEPT !.snaps = Append(@, insts[i].cam)]
    /\ UNCHANGED <<appMounted, cameras, motionEvents, snapshots, stored, webrtcBase,
                   timer, motionTimer, nConfig, clock, tileVars, urlCase>>

RemoveAt(q, k) == SubSeq(q, 1, k - 1) \o SubSeq(q, k + 1, Len(q))

\* handleSnapshot for request k resumes with the parsed body at time t; when
\* a record is added the persist effect runs in the same commit, and
\* localStorage.setItem either stores the history or throws (ignored).
SnapshotResumes(k, data, t, written) ==
  LET id == pending.snaps[k]
      url == IF data.path[1] \in Schemes THEN data.path ELSE buildApiUrl(data.path)
  IN  /\ pending' = [pending EXCEPT !.snaps = RemoveAt(@, k)]
      /\ IF appMounted /\ data.ok /\ data.path # <<>>
         THEN /\ snapshots' = PrependSnapshot(snapshots, id, t, url)
              /\ clock' = t
              /\ stored' = PersistEffect(snapshots', stored, written)
         ELSE /\ t = clock
              /\ written
              /\ UNCHANGED <<snapshots, clock, stored>>
      /\ UNCHANGED <<appMounted, cameras, motionEvents, webrtcBase, timer,
                     motionTimer, nConfig, tileVars, urlCase>>

SnapshotResolves ==
  \E k \in DOMAIN pending.snaps, data \in SnapshotBodies,
     t \in {clock, clock + 1}, written \in BOOLEAN :
    SnapshotResumes(k, data, t, written)

\* api.takeSnapshot rejects.
SnapshotFails ==
  \E k \in DOMAIN pending.snaps :
    /\ pending' = [pending EXCEPT !.snaps = RemoveAt(@, k)]
    /\ UNCHANGED <<appMounted, cameras, motionEvents, snapshots, stored, webrtcBase,
                   timer, motionTimer, nConfig, clock, tileVars, urlCase>>

\* The Remove button of a mounted tile, confirmed: DELETE /api/cameras/{id}.
HandleDelete ==
  /\ MountedTiles(Tiles) # {}
  /\ pending.removes < MaxPending
  /\ pending' = [pending EXCEPT !.removes = @ + 1]
  /\ UNCHANGED <<appMounted, cameras, motionEvents, snapshots, stored, webrtcBase,
                 timer, motionTimer, nConfig, clock, tileVars, urlCase>>

\* handleDelete resumes: refresh() when data.ok.  A rejection or a body
\* without ok issues nothing.
DeleteResumesWithin(n) ==
  \E ok \in BOOLEAN :
    /\ pending.removes > 0
    /\ ok => pending.cameras < n
    /\ pending' = [pending EXCEPT !.removes = @ - 1,
                                  !.cameras = IF ok THEN @ + 1 ELSE @]
    /\ UNCHANGED <<appMounted, cameras, motionEvents, snapshots, stored, webrtcBase,
                   timer, motionTimer, nConfig, clock, tileVars, urlCase>>

\* The page is loaded again: the old page's timers, tiles and requests are
\* gone without any cleanup, App is constructed with the stored history,
\* and its first commit runs the mount effect and the persist effect.
Reload ==
  \E written \in BOOLEAN :
    /\ nConfig < MaxConfig
    /\ nConfig' = nConfig + 1
    /\ appMounted' = TRUE
    /\ cameras' = Array({})
    /\ motionEvents' = {}
    /\ snapshots' = LoadSnapshots(stored)
    /\ stored' = PersistEffect(snapshots', stored, written)
    /\ webrtcBase' = <<>>
    /\ timer' = TRUE
    /\ motionTimer' = TRUE
    /\ pending' = [cameras |-> 1, older |-> 0, motion |-> 1, config |-> 1,
                   snaps |-> <<>>, removes |-> 0]
    /\ insts' = <<>>
    /\ cycles' = <<>>
    /\ deletes' = <<>>
    /\ UNCHANGED <<clock, urlCase>>

DeleteResumes == DeleteResumesWithin(MaxPending)

\* --------------------------------------------------- negotiation progress
Rejected(st, c) == OnFailure([st EXCEPT !.cycles[c].stage = "rejected"], c)

\* createOffer, setLocalDescription or fetch rejects (network failure).
FetchFails ==
  \E c \in DOMAIN cycles :
    /\ cycles[c].stage = "fetch"
    /\ SetTiles(Rejected(Tiles, c))
    /\ UNCHANGED <<appVars, urlCase>>

\* The POST is answered: the body is given to setRemoteDescription, which
\* rejects a body that is no session description.
ReceiveAnswer ==
  \E c \in DOMAIN cycles, r \in Responses :
    /\ cycles[c].stage = "fetch"
    /\ IF r.sdpValid
       THEN SetTiles([Tiles EXCEPT !.cycles[c].stage = "answer",
                                   !.cycles[c].remote = TRUE,
                                   !.cycles[c].httpOk = r.httpOk,
                                   !.cycles[c].location = r.location])
       ELSE SetTiles(Rejected(Tiles, c))
    /\ UNCHANGED <<appVars, urlCase>>

\* setRemoteDescription resolves: the session URL is derived and startWhep
\* returns {pc, sessionUrl} (or throws, when new URL does).
Settle ==
  \E c \in DOMAIN cycles :
    LET su == SessionUrlOf(cycles[c].location, cycles[c].url)
    IN  /\ cycles[c].stage = "answer"
        /\ IF su.threw
           THEN SetTiles(Rejected(Tiles, c))
           ELSE SetTiles(OnSession([Tiles EXCEPT !.cycles[c].stage = "resolved",
                                                 !.cycles[c].sessionUrl = su.url], c))
        /\ UNCHANGED <<appVars, urlCase>>

\* A track event on the peer connection of cycle c: it has a remote
\* description and is not closed.
TrackArrives ==
  \E c \in DOMAIN cycles, k \in 0..NumStreams :
    /\ cycles[c].remote
    /\ cycles[c].pcOpen
    /\ SetTiles(OnTrack(Tiles, c, IF k = 0 THEN NoStream ELSE <<c, k>>))
    /\ UNCHANGED <<appVars, urlCase>>

\* The DELETE's promise is rejected, with the .catch of the negotiation in
\* place of `() => {}`.
OnDeleteFailureSurfaced(st, d) ==
  LET i == st.cycles[st.deletes[d].cycle].inst
  IN  [st EXCEPT !.insts[i].error = "WebRTC failed", !.insts[i].connecting = FALSE]

\* .catch(() => {}) of the cleanup's DELETE.
OnDeleteFailure(st, d) == st

\* The DELETE of a cleanup settles: its response is not read, and a
\* rejection goes to the .catch.
DeleteSettles ==
  \E d \in DOMAIN deletes, ok \in BOOLEAN :
    /\ deletes[d].state = "pending"
    /\ SetTiles(IF ok THEN [Tiles EXCEPT !.deletes[d].state = "done"]
                ELSE OnDeleteFailure([Tiles EXCEPT !.deletes[d].state = "failed"], d))
    /\ UNCHANGED <<appVars, urlCase>>

Next ==
  \/ TimerFires
  \/ RefreshResolves
  \/ RefreshErrorBody
  \/ RefreshFails
  \/ MotionTimerFires
  \/ MotionResolves
  \/ MotionErrorBody
  \/ MotionFails
  \/ ConfigResolves
  \/ ConfigFails
  \/ SaveToken
  \/ HandleSnapshot
  \/ SnapshotResolves
  \/ SnapshotFails
  \/ HandleDelete
  \/ DeleteResumes
  \/ Reload
  \/ FetchFails
  \/ ReceiveAnswer
  \/ Settle
  \/ TrackArrives
  \/ DeleteSettles

Spec == Init /\ [][Next]_vars

\* The live-view part of src/app.js: the camera list, the one configuration
\* fetch and the tiles.
NextLive ==
  \/ TimerFires
  \/ RefreshResolves
  \/ RefreshErrorBody
  \/ RefreshFails
  \/ ConfigResolves
  \/ ConfigFails
  \/ FetchFails
  \/ ReceiveAnswer
  \/ Settle
  \/ TrackArrives
  \/ DeleteSettles

SpecLive == Init /\ [][NextLive]_vars

\* The live-view part with the token input, which lets the gateway base
\* change under a mounted tile.
NextLiveToken ==
  \/ TimerFires
  \/ RefreshResolves
  \/ RefreshErrorBody
  \/ RefreshFails
  \/ ConfigResolves
  \/ ConfigFails
  \/ SaveToken
  \/ FetchFails
  \/ ReceiveAnswer
  \/ Settle
  \/ TrackArrives
  \/ DeleteSettles

SpecLiveToken == Init /\ [][NextLiveToken]_vars

\* ------------------------------------------------- live-view properties
OpenCycles == {c \in DOMAIN cycles : cycles[c].pcOpen}

\* C1: for every camera identity at most one peer connection opened for it
\* is open, over all the tile instances ever created for that identity.
C1_OneOpenPerCamera ==
  \A id \in CamIds : Cardinality({c \in OpenCycles : cycles[c].cam = id}) <= 1

\* C2: no tile instance has two of the peer connections it opened open at
\* the same time.
C2_OneOpenPerInstance ==
  \A i \in DOMAIN insts : Cardinality({c \in OpenCycles : cycles[c].inst = i}) <= 1

\* C3: once a cycle was unbound with its negotiation in flight, no step
\* puts a stream of that cycle's peer connection into the video sink.
C3_NoSinkMutationAfterUnbind ==
  [][\A c \in DOMAIN cycles :
       cycles[c].early =>
         \/ insts'[cycles[c].inst].srcObject = insts[cycles[c].inst].srcObject
         \/ insts'[cycles[c].inst].srcObject[1] # c]_vars

\* C4: a cycle that was torn down (its cleanup ran) has its peer connection
\* closed, whatever state the teardown found it in.
C4_TeardownClosesConnection ==
  \A c \in DOMAIN cycles : ~cycles[c].active => ~cycles[c].pcOpen

\* C5: of two bind cycles for one camera, the first unbound with its
\* negotiation in flight, the first one's stream is never in a sink: only
\* the second negotiation's result is ever applied.
C5_SupersededStreamNeverAttached ==
  \A c1, c2 \in DOMAIN cycles :
    (c1 < c2 /\ cycles[c1].cam = cycles[c2].cam /\ cycles[c1].early)
      => insts[cycles[c1].inst].srcObject[1] # c1

\* What a negotiation's callbacks may write of the controllers.
ControllerState ==
  [i \in DOMAIN insts |->
     <<insts[i].sessionRef, insts[i].connecting, insts[i].error>>]

\* C9: a negotiation that settles (resolves or rejects) after its cycle was
\* unbound leaves sessionRef, connecting and error of every controller as
\* they were.
C9_StaleSettlementChangesNothing ==
  [][\A c \in DOMAIN cycles :
       (/\ ~cycles[c].active
        /\ cycles[c].stage \in {"fetch", "answer"}
        /\ cycles'[c].stage \in {"resolved", "rejected"})
         => ControllerState' = ControllerState]_vars

\* C9 witness: a negotiation resolved after its cycle was unbound, while the
\* same tile is connecting in a later cycle.
C9_Witness ==
  \E c \in DOMAIN cycles :
    /\ cycles[c].early
    /\ cycles[c].stage = "resolved"
    /\ insts[cycles[c].inst].mounted
    /\ insts[cycles[c].inst].connecting

\* C10: the controller of a current bind cycle is connecting without error
\* while the negotiation is in flight, live with the session retained once
\* it resolved, and in error with no session retained once it rejected.
C10_BindOutcome ==
  \A i \in DOMAIN insts :
    LET c == insts[i].cleanup
    IN  c # 0 =>
          /\ cycles[c].stage \in {"fetch", "answer"}
               => insts[i].connecting /\ insts[i].error = ""
          /\ cycles[c].stage = "resolved"
               => ~insts[i].connecting /\ insts[i].error = "" /\ insts[i].sessionRef = c
          /\ cycles[c].stage = "rejected"
               => ~insts[i].connecting /\ insts[i].error # "" /\ insts[i].sessionRef = 0

\* C11: a negotiation whose request failed, was answered with a failure
\* status or was answered with a body that is no session description never
\* resolves: a resolved cycle, and the session a controller retains, come
\* from a success response.
C11_FailedRequestNeverLive ==
  \A c \in DOMAIN cycles :
    (cycles[c].stage = "resolved" \/ \E i \in DOMAIN insts : insts[i].sessionRef = c)
      => cycles[c].httpOk
\* C12: a mounted controller that retains a session reference retains one
\* whose peer connection is open: every teardown unsets the reference.
C12_RetainedSessionIsOpen ==
  \A i \in DOMAIN insts :
    (insts[i].mounted /\ insts[i].sessionRef # 0) => cycles[insts[i].sessionRef].pcOpen
\* C13: a DELETE of a teardown that fails changes nothing of the controllers,
\* the bind cycles and the dashboard, and the peer connection of a session a
\* DELETE was sent for is closed whatever becomes of the DELETE.
C13_DeleteFailureAbsorbed ==
  /\ [](\A d \in DOMAIN deletes : ~cycles[deletes[d].cycle].pcOpen)
  /\ [][\A d \in DOMAIN deletes :
          (deletes[d].state = "pending" /\ deletes'[d].state = "failed")
            => UNCHANGED <<appVars, insts, cycles>>]_vars

\* C13 witness: the DELETE for a tile's session failed, and the same tile is
\* live in a later bind cycle.
C13_Witness ==
  \E d \in DOMAIN deletes :
    LET s == deletes[d].cycle
        i == cycles[s].inst
    IN  /\ deletes[d].state = "failed"
        /\ ~cycles[s].pcOpen
        /\ insts[i].mounted
        /\ insts[i].cleanup > s
        /\ insts[i].sessionRef = insts[i].cleanup
\* C14: while the gateway base is unresolved (the configuration fetch is
\* pending, or failed) no peer connection was created and no POST issued:
\* there is no bind cycle and every controller is idle.
C14_NoBindBeforeConfig ==
  webrtcBase = <<>> =>
    /\ cycles = <<>>
    /\ \A i \in DOMAIN insts : insts[i].cleanup = 0 /\ insts[i].sessionRef = 0

\* C14 witness: the configuration fetch failed and tiles are mounted.
C14_Witness ==
  /\ webrtcBase = <<>>
  /\ pending.config = 0
  /\ Cardinality(MountedTiles(Tiles)) = 2
  /\ cycles = <<>>
\* C15: once the sink holds a stream of a cycle's peer connection, no later
\* track event of that connection puts another of its streams there.
C15_SinkAssignedOncePerCycle ==
  [][\A c \in DOMAIN cycles :
       LET i == cycles[c].inst
       IN  (insts[i].srcObject[1] = c /\ insts'[i].srcObject[1] = c)
             => insts'[i].srcObject = insts[i].srcObject]_vars

\* C20: a session whose negotiation resolved with a session URL and whose
\* cycle was torn down has been sent a DELETE.  (Only a cleanup sends a
\* DELETE, in the step that tears the cycle down, and a cycle has one
\* cleanup: a torn-down cycle without a DELETE never gets one.)
C20_TornDownSessionDeleted ==
  \A c \in DOMAIN cycles :
    (cycles[c].stage = "resolved" /\ Truthy(cycles[c].sessionUrl) /\ ~cycles[c].active)
      => \E d \in DOMAIN deletes : deletes[d].cycle = c

\* The live view of one camera together with the motion polls and the
\* snapshot button: the polls bring cam1 with either stream_path or no
\* camera, a motion poll brings one event, a snapshot request is answered
\* with a path and stored.
SteadyPoll ==
  \E a \in CameraArrays :
    /\ \A cam \in a : cam.id = CamOrder[1]
    /\ RefreshResumes(Array(a))

SteadyMotion == MotionResumes(Array({"m1"}))

SteadySnapshot ==
  /\ pending.snaps # <<>>
  /\ SnapshotResumes(1, [ok |-> TRUE, path |-> <<"/", "snapshots", "/", "a.jpg">>],
                     clock + 1, TRUE)

NextSteady ==
  \/ TimerFires
  \/ SteadyPoll
  \/ ConfigResolves
  \/ SaveToken
  \/ FetchFails
  \/ ReceiveAnswer
  \/ Settle
  \/ MotionTimerFires
  \/ SteadyMotion
  \/ HandleSnapshot
  \/ SteadySnapshot

SpecSteady == Init /\ [][NextSteady]_vars

\* C18: a bind cycle starts only with a new tile (a camera id that entered
\* the list) or a changed gateway base, and only a changed base or a
\* tile's unmount tears a cycle down: a tile that stays mounted under an
\* unchanged base keeps its cycle and its session's connection through every
\* negotiation outcome, poll and snapshot step.
C18_NoRebindWithoutCause ==
  [][/\ \A c \in DOMAIN cycles' :
          c > Len(cycles) =>
            (cycles'[c].inst > Len(insts) \/ webrtcBase' # webrtcBase)
     /\ \A i \in DOMAIN insts :
          (insts[i].mounted /\ insts'[i].mounted /\ webrtcBase' = webrtcBase) =>
            /\ insts'[i].cleanup = insts[i].cleanup
            /\ \A c \in DOMAIN cycles :
                 cycles[c].inst = i =>
                   /\ cycles'[c].active = cycles[c].active
                   /\ cycles'[c].pcOpen = cycles[c].pcOpen
     /\ (FetchFails \/ ReceiveAnswer \/ Settle \/ SteadyMotion \/ MotionTimerFires
           \/ HandleSnapshot \/ SteadySnapshot)
          => /\ Len(cycles') = Len(cycles)
             /\ deletes' = deletes
             /\ \A c \in DOMAIN cycles :
                  /\ cycles'[c].active = cycles[c].active
                  /\ cycles'[c].pcOpen = cycles[c].pcOpen]_vars

\* C18 witness: a tile's negotiation failed and nothing replaced it, though
\* a later poll brought the camera with another stream_path, motion events
\* arrived and a snapshot was taken.
C18_Witness ==
  \E i \in MountedTiles(Tiles) :
    LET c == insts[i].cleanup
    IN  /\ c # 0
        /\ c = Len(cycles)
        /\ cycles[c].stage = "rejected"
        /\ insts[i].error # ""
        /\ cameras.isArray
        /\ \E cam \in cameras.items :
             cam.id = insts[i].cam /\ WhepUrl(webrtcBase, cam) # cycles[c].url
        /\ motionEvents # {}
        /\ snapshots # <<>>

\* --------------------------------------------------- reconciliation loop
\* The dashboard part of src/app.js: the polls, the snapshot history and the
\* camera removal, while the configuration fetch is still unanswered (the
\* tiles mount and unmount, and stay idle).
NextDash ==
  \/ TimerFires
  \/ RefreshResolves
  \/ RefreshErrorBody
  \/ RefreshFails
  \/ MotionTimerFires
  \/ MotionResolves
  \/ MotionErrorBody
  \/ MotionFails
  \/ HandleSnapshot
  \/ SnapshotResolves
  \/ SnapshotFails
  \/ HandleDelete
  \/ DeleteResumes

SpecDash == Init /\ [][NextDash]_vars

FailedPoll == RefreshFails \/ RefreshErrorBody \/ MotionFails \/ MotionErrorBody
PollStep == FailedPoll \/ RefreshResolves \/ MotionResolves

\* C6: a failed poll (a rejected request, or a failure response with an
\* error body) leaves both local collections as they were, and a successful
\* poll makes its collection the response.
C6_FailedPollKeepsCollection ==
  [][/\ FailedPoll => cameras' = cameras /\ motionEvents' = motionEvents
     /\ \A a \in CameraArrays :
          appMounted /\ RefreshResumes(Array(a)) => cameras' = Array(a)
     /\ \A a \in SUBSET MotionIds :
          appMounted /\ MotionResumes(Array(a)) => motionEvents' = a]_vars

\* C7: the snapshot history changes only by one record put at its front,
\* and no poll step changes it.
C7_HistoryPrependOnly ==
  [][/\ \/ snapshots' = snapshots
        \/ Len(snapshots') = Len(snapshots) + 1 /\ Tail(snapshots') = snapshots
     /\ PollStep => snapshots' = snapshots]_vars

\* C7 witness: two different records accumulated, with polls still going on.
C7_Witness ==
  /\ Len(snapshots) >= 2
  /\ snapshots[1] # snapshots[2]
  /\ pending.cameras > 0

\* ------------------------------------------------- snapshot storage
\* The snapshot history over page loads: the camera list, the snapshot
\* button and the reload of the page.  The store may refuse the first write
\* too.
InitStore ==
  /\ \E written \in BOOLEAN : InitAppStored(written)
  /\ urlCase = UrlCase(Null, <<>>)

NextStore ==
  \/ TimerFires
  \/ RefreshResolves
  \/ RefreshErrorBody
  \/ HandleSnapshot
  \/ SnapshotResolves
  \/ SnapshotFails
  \/ Reload

SpecStore == InitStore /\ [][NextStore]_vars

\* C16: a snapshot step whose write succeeds leaves the store holding the
\* whole in-memory history (what a reload would restore); one whose write
\* fails leaves the store as it was and the history with the new record at
\* its front; and a reload restores the stored history.
C16_HistoryPersisted ==
  [][/\ \A k \in DOMAIN pending.snaps, data \in SnapshotBodies, t \in {clock, clock + 1} :
          /\ (SnapshotResumes(k, data, t, TRUE) /\ snapshots' # snapshots)
               => LoadSnapshots(stored') = snapshots'
          /\ (SnapshotResumes(k, data, t, FALSE) /\ appMounted /\ data.ok
                 /\ data.path # <<>>)
               => /\ stored' = stored
                  /\ Len(snapshots') = Len(snapshots) + 1
                  /\ snapshots'[1].id = pending.snaps[k]
                  /\ snapshots'[1].ts = t
     /\ Reload => snapshots' = LoadSnapshots(stored)
     /\ (Reload /\ stored' # stored) => LoadSnapshots(stored') = snapshots']_vars

\* C16 witness: after a reload the history is the two different records the
\* store held.
C16_Witness ==
  /\ nConfig > 1
  /\ Len(snapshots) = 2
  /\ snapshots[1] # snapshots[2]
  /\ LoadSnapshots(stored) = snapshots

\* C17: once App is torn down both timers are cleared, and until the page
\* is loaded again no timer fires and no camera-list or motion request is
\* issued (but the refresh of a camera removal that was in flight).
C17_TeardownCancelsTimers ==
  /\ [](~appMounted => ~timer /\ ~motionTimer)
  /\ [][(~appMounted /\ ~Reload) =>
          /\ ~TimerFires
          /\ ~MotionTimerFires
          /\ (pending.removes = pending'.removes => pending'.cameras <= pending.cameras)
          /\ pending'.motion <= pending.motion]_vars

\* C17 witness: App was torn down with both polls in flight, and both have
\* come back since.
C17_Witness ==
  /\ ~appMounted
  /\ pending.cameras = 0
  /\ pending.motion = 0
  /\ motionEvents # {}

\* ------------------------------------------------- racing refreshes
\* The camera list with several requests in flight: the timer fires while
\* a response is outstanding, and a removal's refresh joins them.
RacingTimerFires == TimerFiresWithin(MaxRacing)
RacingDeleteResumes == DeleteResumesWithin(MaxRacing)

NextRacing ==
  \/ RacingTimerFires
  \/ RefreshResolves
  \/ RefreshFails
  \/ HandleDelete
  \/ RacingDeleteResumes

SpecRacing == Init /\ [][NextRacing]_vars

\* C19: no step replaces the cached camera collection by the response of a
\* request issued before the one whose response it holds.
C19_NoOlderResponseApplied ==
  [][(appMounted /\ cameras' # cameras /\ pending'.cameras = pending.cameras - 1)
       => pending'.older >= pending.older]_vars

\* ------------------------------------------------------ session URL
UrlLocations ==
  {Null, Str(<<>>),
   Str(<<"/", "sessions", "/", "abc123">>),
   Str(<<"sessions", "/", "abc123">>),
   Str(<<"https:", "//", "other", "/", "s", "/", "1">>),
   Str(<<"//", "cdn", "/", "s", "/", "1">>),
   Str(<<"..", "/", "x">>),
   Str(<<"/", "a", "/", "..", "/", "b">>),
   Str(<<".", "/", "s">>),
   Str(<<"https:", "//">>)}

UrlEndpoints ==
  {WhepUrl(b, Camera(id, sp)) :
     b \in GatewayBases \cup {Fallback}, id \in CamIds, sp \in StreamPaths}

InitUrl ==
  /\ InitApp
  /\ \E l \in UrlLocations, e \in UrlEndpoints : urlCase = UrlCase(l, e)

\* The last lines of startWhep on the case's header and endpoint.
DeriveSessionUrl ==
  LET su == SessionUrlOf(urlCase.location, urlCase.whepUrl)
  IN  /\ ~urlCase.done
      /\ urlCase' = [urlCase EXCEPT !.done = TRUE, !.threw = su.threw, !.url = su.url]
      /\ UNCHANGED <<appVars, tileVars>>

SpecUrl == InitUrl /\ [][DeriveSessionUrl]_vars

HasDots(t) == \E k \in DOMAIN t : t[k] \in {".", ".."}
Returned == urlCase.done /\ ~urlCase.threw

\* The header value /sessions/abc123 against https://gw/cam1/whep gives
\* https://gw/sessions/abc123, and every path-absolute header without dot
\* segments gives the endpoint's scheme and host followed by the header.
ResolvedAgainstEndpoint ==
  /\ (/\ urlCase.location = Str(<<"/", "sessions", "/", "abc123">>)
      /\ urlCase.whepUrl = <<"https:", "//", "gw", "/", "cam1", "/", "whep">>)
       => urlCase.url = Str(<<"https:", "//", "gw", "/", "sessions", "/", "abc123">>)
  /\ (Truthy(urlCase.location) /\ urlCase.location.v[1] = "/"
        /\ ~HasDots(urlCase.location.v))
       => urlCase.url = Str(SubSeq(urlCase.whepUrl, 1, 3) \o urlCase.location.v)

\* C8 as stated: the returned locator is the Location header resolved
\* against the endpoint URL, and is null exactly when the response has no
\* Location header.
C8_NullIffNoHeader ==
  Returned => /\ ResolvedAgainstEndpoint
              /\ urlCase.url.isNull <=> urlCase.location.isNull

\* C8 amended: the returned locator is the Location header resolved against
\* the endpoint URL, and is null exactly when the response has no Location
\* header or an empty one.
C8_NullIffNoHeaderOrEmpty ==
  Returned => /\ ResolvedAgainstEndpoint
              /\ urlCase.url.isNull <=>
                   (urlCase.location.isNull \/ urlCase.location.v = <<>>)

\* C8 witness: the scenario's header and endpoint, with a locator returned.
C8_Witness ==
  /\ Returned
  /\ urlCase.location = Str(<<"/", "sessions", "/", "abc123">>)
  /\ urlCase.whepUrl = <<"https:", "//", "gw", "/", "cam1", "/", "whep">>
  /\ ~urlCase.url.isNull

====
